---------------------------- MODULE Spec2Model ----------------------------
(***************************************************************************)
(* A model of the YES document parser (crate yes_parser).                  *)
(*                                                                         *)
(* A String is a sequence of bytes (0..255) holding valid UTF-8; an        *)
(* Option<T> is a sequence of length 0 (None) or 1 (Some).  Positions      *)
(* (pos, curr, start, pivot ...) are the 0-based usize values of the       *)
(* source; slice[i] of the source is slice[i + 1] here.                    *)
(***************************************************************************)
EXTENDS Integers, Sequences, FiniteSets, TLC

VARIABLES
    lines,            \* the physical lines handed to process(), in order
    literals,         \* the literal list after build_quotes() was inserted
    overflow_checks,  \* build profile: TRUE when usize overflow panics
    total_lines,      \* YesDocParser::total_lines
    building_line,    \* YesDocParser::building_line : Option<String>
    attrs,            \* YesDocParser::attrs
    results,          \* YesDocParser::results
    element_parser,   \* process(): the ElementParser of the last read()
    walk_info,        \* parse_tokens(): the tokens of the last collect_tokens()
    read_calls,       \* the (line_number, line) arguments of every read()
    pc,               \* "process" | "returned" | "panicked" | "hung"
    call,             \* a direct call of a library function: its arguments
    ret               \* ... and what it returned

vars == << lines, literals, overflow_checks, total_lines, building_line,
           attrs, results, element_parser, walk_info, read_calls, pc,
           call, ret >>

-----------------------------------------------------------------------------
(* Bounds of the model.                                                    *)

\* Longest document (physical lines) of the driver specification.
MaxLines == 3

\* Longest argument range (bytes after the element name) of the scanner
\* specification.
MaxArgLen == 5

\* Longest line of the lexer specification.
MaxLexLen == 4

\* Longest argument range of a line scanned with two literals that share a
\* begin byte.
MaxSharedLen == 4

\* Longest string, in characters, the string utilities are called on, and
\* the longest chain of calls made on one string.
MaxStrLen == 4

MaxOps == 2

\* Most upserts made on one Element before its args are displayed.
MaxUpserts == 3

\* Longest list of keys has_keys is called with.
MaxKeys == 2

\* Longest line, in characters, of the documents with two-byte characters.
MaxUtfLen == 4

\* Longest argument range, in bytes, of the lines with repeated keys.
MaxKeyArgLen == 7

\* Longest args list an Element starts with when upsert is called directly.
MaxArgs == 2

-----------------------------------------------------------------------------
(* enums.rs: Glyphs                                                        *)

At == 64
Bang == 33
Comma == 44
Equal == 61
Hash == 35
Quote == 34
Space == 32
Backslash == 92

\* Glyphs::is_reserved: Space and Backslash are known to Glyphs::from but
\* are not reported as reserved.
is_reserved(c) == c \in {At, Bang, Comma, Equal, Hash, Quote}

\* usize is wider than TLC's integers; every value the model wraps is a
\* small negative difference, and all that is read of the wrapped value is
\* that it exceeds the length of any string.
UsizeModulus == 2 ^ 30

wrapping_sub(a, b) == (a - b + UsizeModulus) % UsizeModulus

Min(S) == CHOOSE x \in S : \A y \in S : x <= y

Max(S) == CHOOSE x \in S : \A y \in S : x >= y

None == << >>

Some(x) == << x >>

-----------------------------------------------------------------------------
(* utils/mod.rs: StringUtils for String                                    *)

\* The number of bytes of the UTF-8 character a lead byte starts.
CharWidth(b) ==
    IF b < 128 THEN 1 ELSE IF b < 224 THEN 2 ELSE IF b < 240 THEN 3 ELSE 4

\* str::chars(): the characters of s, each as its bytes.
RECURSIVE Chars(_)
Chars(s) ==
    IF s = << >> THEN << >>
    ELSE LET w == IF CharWidth(s[1]) <= Len(s) THEN CharWidth(s[1]) ELSE Len(s)
         IN  << SubSeq(s, 1, w) >> \o Chars(SubSeq(s, w + 1, Len(s)))

RECURSIVE Flatten(_)
Flatten(ss) == IF ss = << >> THEN << >> ELSE Head(ss) \o Flatten(Tail(ss))

\* self.chars().skip(start).take(len).collect()
substring(s, start, len) ==
    LET cs == Chars(s)
        hi == IF start + len <= Len(cs) THEN start + len ELSE Len(cs)
    IN  Flatten(SubSeq(cs, start + 1, hi))

\* is_quoted evaluates b.len() - 1 after b.nth(0) consumed the first byte:
\* for the one-byte string `"` that is 0 - 1.
is_quoted_overflows(s) == Len(s) = 1 /\ s[1] = Quote

\* b.len() > 0 && b.nth(0) == c && b.nth(b.len() - 1) == c, where the second
\* nth runs on the iterator left after the first: it yields the last byte.
\* On the wrapped index nth yields None.
is_quoted(s) ==
    /\ Len(s) > 0
    /\ s[1] = Quote
    /\ ~ is_quoted_overflows(s)
    /\ s[Len(s)] = Quote

quote(s) == IF ~ is_quoted(s) THEN << Quote >> \o s \o << Quote >> ELSE s

\* self.len() is the byte length, substring counts characters.
unquote(s) == IF is_quoted(s) THEN substring(s, 1, Len(s) - 2) ELSE s

ltrim(s) ==
    LET I == { i \in 0 .. Len(s) - 1 : s[i + 1] # Space }
    IN  IF I = {} THEN s ELSE substring(s, Min(I), Len(s) - Min(I))

rtrim(s) ==
    LET I == { i \in 0 .. Len(s) - 1 : s[i + 1] # Space }
    IN  IF I = {} THEN s ELSE substring(s, 0, Max(I) + 1)

trim(s) == rtrim(ltrim(s))

\* trim() then unquote() as the parser chains them; the overflow of
\* is_quoted is reported beside the value.
trim_unquote_overflows(s) == is_quoted_overflows(trim(s))

-----------------------------------------------------------------------------
(* literal.rs                                                              *)

Literal(b, e) == [begin |-> b, end |-> e]

\* Literal::new: Err(message) when begin or end is reserved, else Ok.
Literal_new(begin, end) ==
    IF is_reserved(begin)
    THEN [ tag |-> "Err",
           message |-> "Literal::begin cannot contain a reserved character." ]
    ELSE IF is_reserved(end)
    THEN [ tag |-> "Err",
           message |-> "Literal::end cannot contain a reserved character." ]
    ELSE [ tag |-> "Ok", literal |-> Literal(begin, end) ]

\* Literal::build_quotes
build_quotes == Literal(Quote, Quote)

-----------------------------------------------------------------------------
(* keyval.rs                                                               *)

contains_space(s) == \E i \in 1 .. Len(s) : s[i] = Space

\* KeyVal::new
KeyVal_new(key, val) ==
    [ key |-> key,
      val |-> val,
      key_contains_space |-> IF key = None THEN FALSE ELSE contains_space(key[1]),
      value_contains_space |-> contains_space(val) ]

\* KeyVal::copy
KeyVal_copy(other) == KeyVal_new(other.key, other.val)

is_nameless(kv) == kv.key = None

\* impl ToString for KeyVal: each side is quoted when its flag, set by
\* KeyVal::new, says it contains a space.
KeyVal_to_string(kv) ==
    LET v == IF kv.value_contains_space THEN quote(kv.val) ELSE kv.val
        k == IF kv.key_contains_space THEN quote(kv.key[1]) ELSE kv.key[1]
    IN  IF is_nameless(kv) THEN v ELSE k \o << Equal >> \o v

-----------------------------------------------------------------------------
(* element.rs                                                              *)

\* Element::new
Element_new(text) == [text |-> text, args |-> << >>]

\* self.args.iter().position(..): the indices (1-based) of the args whose
\* key is Some(k).
KeyPositions(args, k) == { i \in 1 .. Len(args) : args[i].key = Some(k) }

\* An upsert that keeps the value of a key that is already present.
upsert_keep_first(args, kv) ==
    IF is_nameless(kv) \/ KeyPositions(args, kv.key[1]) = {} THEN Append(args, kv) ELSE args

\* An upsert that never looks for the key.
upsert_append_always(args, kv) == Append(args, kv)

\* Element::upsert, on the args list.  Only the val field of the matching
\* arg is assigned.
upsert(args, kv) ==
    IF is_nameless(kv) THEN Append(args, kv)
    ELSE LET P == KeyPositions(args, kv.key[1])
         IN  IF P # {}
             THEN [args EXCEPT ![Min(P)].val = kv.val]
             ELSE Append(args, kv)

\* Element::has_key
has_key(args, key) == KeyPositions(args, key) # {}

\* A has_keys that is satisfied by one key that is found.
has_keys_any(args, keys) == keys = << >> \/ \E i \in 1 .. Len(keys) : has_key(args, keys[i])

\* Element::has_keys: false at the first key that has_key does not find.
RECURSIVE has_keys(_, _)
has_keys(args, keys) ==
    IF keys = << >> THEN TRUE
    ELSE IF ~ has_key(args, Head(keys)) THEN FALSE
    ELSE has_keys(args, Tail(keys))

-----------------------------------------------------------------------------
(* enums.rs: Elements, Delimiters, ErrorCodes                              *)

new_standard(label) ==
    [kind |-> "Standard", attrs |-> << >>, element |-> Element_new(label)]

new_attribute(label) == [kind |-> "Attribute", element |-> Element_new(label)]

new_global(label) == [kind |-> "Global", element |-> Element_new(label)]

\* new_comment trimming the spaces around its message.
new_comment_trimmed(message) ==
    [kind |-> "Comment", element |-> Element_new(trim(message))]

new_comment(message) == [kind |-> "Comment", element |-> Element_new(message)]

\* Elements::copy
Elements_copy(other) ==
    [ text |-> other.text,
      args |-> [i \in 1 .. Len(other.args) |-> KeyVal_copy(other.args[i])] ]

\* Elements::upsert_keyval: every variant forwards to its inner Element.
upsert_keyval(el, keyval) ==
    [el EXCEPT !.element.args = upsert(el.element.args, keyval)]

\* Delimiters::value
Delimiter_value(d) ==
    CASE d = "Comma" -> Comma
      [] d = "Space" -> Space
      [] OTHER -> 0

\* ErrorCodes::values
ErrorCodes_values(code) ==
    CASE code = "BadTokenPosAttribute" -> "Element using attribute prefix out-of-place."
      [] code = "BadTokenPosBang" -> "Element using global prefix out-of-place."
      [] code = "EolNoData" -> "Nothing to parse (EOL)."
      [] code = "EolMissingElement" -> "Missing element name (EOL)."
      [] code = "EolMissingAttribute" -> "Missing attribute name (EOL)."
      [] code = "EolMissingGlobal" -> "Missing global identifier (EOL)."
      [] code = "UnterminatedQuote" -> "Missing end quote in expression."
      [] OTHER -> "Unexpected runtime error."

-----------------------------------------------------------------------------
(* element_parser.rs: collect_tokens                                       *)

\* TokenWalkInfo::calc_pivot
calc_pivot(a, b) ==
    IF a # None THEN (IF a[1] < b THEN None ELSE Some(a[1] - b)) ELSE None

\* slice.iter().skip(curr).position(|&b| b == byte)
position_from(slice, curr, byte) ==
    LET J == { j \in curr .. Len(slice) - 1 : slice[j + 1] = byte }
    IN  IF J = {} THEN None ELSE Some(Min(J) - curr)

\* look_ahead finding no terminating byte.
look_ahead_none(slice, curr, byte) == None

\* Look ahead for the terminating byte of the active literal.
look_ahead(slice, curr, byte) == position_from(slice, curr, byte)

\* for literal in ud_literals.keys() { if literal.begin == c { .. break } }
\* keys is the iteration order of the HashMap.
begin_match(keys, c) ==
    LET I == { i \in 1 .. Len(keys) : keys[i].begin = c }
    IN  IF I = {} THEN None ELSE Some(keys[Min(I)])

\* The is_literal block shared by both passes: the table entry of the
\* active literal is filled when empty, else emptied and the span closed.
\* assert!(active_literal != None) and the expect on the table's entry fail
\* when no literal is active or the active one is not a key of the table.
toggle_literal(st) ==
    IF st.active = None \/ st.active[1] \notin DOMAIN st.ud
    THEN [st EXCEPT !.failed = TRUE]
    ELSE LET key == st.active[1]
         IN  IF st.ud[key] = None
             THEN [st EXCEPT !.ud[key] = Some(st.curr)]
             ELSE [st EXCEPT !.ud[key] = None, !.active = None]

\* The positions from..upto-1 a pass leaves unexamined while a literal is
\* active: those jumped over by the look-ahead, or the rest of the line
\* when the look-ahead finds no end byte and the loop breaks.
skipped(from, upto) == from .. upto - 1

\* Pass 2 reaching the is_literal block on a begin byte without having set
\* active_literal.
begin_literal_unset(st, lit) == [toggle_literal(st) EXCEPT !.curr = @ + 1]

\* Pass 2 on the begin byte of lit (lines 437-465): the literal becomes
\* active and its table entry is toggled; the span opens only when the
\* entry was empty.
begin_literal(st, lit) ==
    LET t == toggle_literal([st EXCEPT !.active = lit])
    IN  [t EXCEPT !.curr = @ + 1,
                  !.inside = IF t.active # None THEN @ \cup {st.curr} ELSE @]

\* ElementParser::set_delimiter
set_delimiter(current, delim) == IF current # "Unset" THEN current ELSE delim

\* Pass 1, the metrics kept while no literal is active (lines 262-303).
pass1_metrics(st, c) ==
    IF c # Space /\ c # Equal
    THEN [st EXCEPT
            !.tokens_bf_eq = IF ~ st.token_walking /\ st.equal = None THEN @ + 1 ELSE @,
            !.tokens_af_eq = IF ~ st.token_walking /\ st.equal # None THEN @ + 1 ELSE @,
            !.token_walking = TRUE,
            !.spaces_bf_eq = IF st.equal = None THEN 0 ELSE @,
            !.spaces_af_eq = IF st.equal # None THEN 0 ELSE @]
    ELSE IF c = Space
    THEN [st EXCEPT
            !.spaces_bf_eq = IF st.token_walking /\ st.equal = None THEN @ + 1 ELSE @,
            !.spaces_af_eq = IF st.token_walking /\ st.equal # None THEN @ + 1 ELSE @,
            !.token_walking = FALSE,
            !.space = IF @ = None THEN Some(st.curr) ELSE @]
    ELSE [st EXCEPT
            !.token_walking = FALSE,
            !.equal = IF @ = None THEN Some(st.curr) ELSE @,
            !.equal_count = @ + 1]

\* Pass 1, the loop of lines 244-371, from the state st to the loop's exit.
RECURSIVE pass1(_, _, _)
pass1(slice, keys, st) ==
    IF st.failed \/ st.curr >= Len(slice) THEN st
    ELSE
    LET c == slice[st.curr + 1] IN
    IF st.active # None
    THEN IF st.active[1].end = c
         THEN pass1(slice, keys,
                    [toggle_literal(st) EXCEPT !.curr = @ + 1,
                                               !.inside = @ \cup {st.curr}])
         ELSE LET offset == look_ahead(slice, st.curr, st.active[1].end)
              IN  IF offset # None
                  THEN pass1(slice, keys,
                             [st EXCEPT !.curr = @ + offset[1],
                                        !.inside = @ \cup skipped(st.curr, st.curr + offset[1])])
                  ELSE [st EXCEPT !.inside = @ \cup skipped(st.curr, Len(slice))]
    ELSE LET m  == pass1_metrics(st, c)
             lit == begin_match(keys, c)
         IN  IF lit # None
             THEN pass1(slice, keys,
                        [m EXCEPT !.active = lit,
                                  !.ud[lit[1]] = Some(st.curr),
                                  !.curr = @ + 1,
                                  !.inside = @ \cup {st.curr}])
             ELSE IF c = Comma
             THEN [m EXCEPT !.delimiter = set_delimiter(@, "Comma")]
             ELSE pass1(slice, keys, [m EXCEPT !.curr = @ + 1])

pass1_init(keys, start) ==
    [ curr |-> start, active |-> None,
      ud |-> [k \in { keys[i] : i \in 1 .. Len(keys) } |-> None],
      space |-> None, equal |-> None, equal_count |-> 0,
      spaces_bf_eq |-> 0, spaces_af_eq |-> 0,
      tokens_bf_eq |-> 0, tokens_af_eq |-> 0,
      token_walking |-> FALSE, delimiter |-> "Unset", inside |-> {},
      failed |-> FALSE ]

abs_diff(a, b) == IF a >= b THEN a - b ELSE b - a

\* one_token_exists without its count of `=`.
one_token_exists_any_equal_count(st) ==
    /\ st.tokens_bf_eq = 1
    /\ st.tokens_af_eq <= 1
    /\ abs_diff(st.spaces_bf_eq, st.spaces_af_eq) <= 1
    /\ st.space # None

\* Lines 375-379.
one_token_exists(st) ==
    /\ st.equal_count = 1
    /\ st.tokens_bf_eq = 1
    /\ st.tokens_af_eq <= 1
    /\ abs_diff(st.spaces_bf_eq, st.spaces_af_eq) <= 1
    /\ st.space # None

\* Lines 382-395: the delimiter once pass 1 has ended in st.
learned_delimiter(st) ==
    IF st.delimiter = "Unset"
    THEN IF one_token_exists(st)
         THEN set_delimiter(st.delimiter, "Comma")
         ELSE set_delimiter(st.delimiter, "Space")
    ELSE st.delimiter

\* The equal position pass 2 keeps (line 418): every `=` outside a literal
\* is assigned to it.
track_equal(equal, curr) == Some(curr)

\* A TokenWalkInfo pushed by pass 2; str is the whole trimmed line.
token_at(str, last_token_idx, upto, equal) ==
    [ data |-> substring(str, last_token_idx, upto - last_token_idx),
      pivot |-> calc_pivot(equal, last_token_idx) ]

\* Pass 2, the loop of lines 403-486.
RECURSIVE pass2(_, _, _, _)
pass2(slice, keys, delim, st) ==
    IF st.failed \/ st.curr >= Len(slice) THEN st
    ELSE
    LET c == slice[st.curr + 1] IN
    IF st.active # None
    THEN IF st.active[1].end = c
         THEN pass2(slice, keys, delim,
                    [toggle_literal(st) EXCEPT !.curr = @ + 1,
                                               !.inside = @ \cup {st.curr}])
         ELSE LET offset == look_ahead(slice, st.curr, st.active[1].end)
              IN  IF offset # None
                  THEN pass2(slice, keys, delim,
                             [st EXCEPT !.curr = @ + offset[1],
                                        !.inside = @ \cup skipped(st.curr, st.curr + offset[1])])
                  ELSE [st EXCEPT !.inside = @ \cup skipped(st.curr, Len(slice))]
    ELSE IF c = Equal
    THEN pass2(slice, keys, delim,
               [st EXCEPT !.equal = track_equal(@, st.curr), !.curr = @ + 1])
    ELSE IF c = Delimiter_value(delim)
    THEN pass2(slice, keys, delim,
               [st EXCEPT
                  !.tokens = Append(@, token_at(slice, st.last_token_idx, st.curr, st.equal)),
                  !.curr = @ + 1,
                  !.last_token_idx = st.curr + 1])
    ELSE LET lit == begin_match(keys, c)
         IN  IF lit # None
             THEN pass2(slice, keys, delim, begin_literal(st, lit))
             ELSE pass2(slice, keys, delim, [st EXCEPT !.curr = @ + 1])

\* collect_tokens: the delimiter it sets and the tokens it returns.  The
\* literal table ud is not cleared between the passes.
collect_tokens(slice, start, keys) ==
    LET p1    == pass1(slice, keys, pass1_init(keys, start))
        delim == learned_delimiter(p1)
        p2    == pass2(slice, keys, delim,
                       [ curr |-> start, active |-> None, ud |-> p1.ud,
                         equal |-> None, last_token_idx |-> start,
                         tokens |-> << >>, inside |-> {}, failed |-> p1.failed ])
        tokens == IF p2.last_token_idx < Len(slice)
                  THEN Append(p2.tokens,
                              token_at(slice, p2.last_token_idx, Len(slice), p2.equal))
                  ELSE p2.tokens
    IN  [ delimiter |-> delim, tokens |-> tokens, pass1 |-> p1, pass2 |-> p2 ]

-----------------------------------------------------------------------------
(* element_parser.rs: evaluate_keyvals, parse_tokens, read                 *)

has_pivot(token) == token.pivot # None

\* Lines 505-509: a token whose first byte is `=` is passed over.
token_skipped(token) == Len(token.data) > 0 /\ token.data[1] = Equal

token_key(token) == substring(token.data, 0, token.pivot[1])

token_val(token) ==
    substring(token.data, token.pivot[1] + 1, Len(token.data) - token.pivot[1])

\* The KeyVal evaluate_keyvals builds of a token it does not pass over.
token_keyval(token) ==
    IF has_pivot(token)
    THEN KeyVal_new(Some(unquote(trim(token_key(token)))),
                    unquote(trim(token_val(token))))
    ELSE KeyVal_new(None, unquote(trim(token.data)))

\* Whether evaluating the token runs into the overflow of is_quoted.
token_overflows(token) ==
    /\ ~ token_skipped(token)
    /\ IF has_pivot(token)
       THEN \/ trim_unquote_overflows(token_key(token))
            \/ trim_unquote_overflows(token_val(token))
       ELSE trim_unquote_overflows(token.data)

RECURSIVE evaluate_keyvals(_, _)
evaluate_keyvals(el, tokens) ==
    IF tokens = << >> THEN el
    ELSE IF token_skipped(Head(tokens))
    THEN evaluate_keyvals(el, Tail(tokens))
    ELSE evaluate_keyvals(upsert_keyval(el, token_keyval(Head(tokens))), Tail(tokens))

\* str::trim of the standard library (read is handed a &str): the ASCII
\* members of White_Space.
is_whitespace(c) == c \in {9, 10, 11, 12, 13, Space}

str_trim(line) ==
    LET I == { i \in 1 .. Len(line) : ~ is_whitespace(line[i]) }
    IN  IF I = {} THEN << >> ELSE SubSeq(line, Min(I), Max(I))

\* String::from_utf8(..).is_ok(), for characters of up to two bytes.
from_utf8_ok(bytes) ==
    \A ch \in { Chars(bytes)[i] : i \in 1 .. Len(Chars(bytes)) } :
        \/ Len(ch) = 1 /\ ch[1] < 128
        \/ Len(ch) = 2 /\ ch[1] \in 194 .. 223 /\ ch[2] \in 128 .. 191

\* The prefix loop with the error of a second prefix named after the first
\* prefix: BadTokenPosAttribute after `@`, BadTokenPosBang after `!`.
RECURSIVE prefix_loop_first_named(_, _, _)
prefix_loop_first_named(slice, pos, element_type) ==
    LET out(exit, error) ==
            [exit |-> exit, pos |-> pos, element_type |-> element_type, error |-> error]
        misplaced == IF element_type = "Attribute"
                     THEN Some("BadTokenPosAttribute")
                     ELSE Some("BadTokenPosBang")
    IN
    IF pos >= Len(slice) THEN out("name", None)
    ELSE
    LET c == slice[pos + 1] IN
    IF c = Space THEN prefix_loop_first_named(slice, pos + 1, element_type)
    ELSE IF ~ is_reserved(c) THEN out("name", None)
    ELSE IF c = At
    THEN IF element_type # "Standard"
         THEN out("error", misplaced)
         ELSE prefix_loop_first_named(slice, pos + 1, "Attribute")
    ELSE IF c = Bang
    THEN IF element_type # "Standard"
         THEN out("error", misplaced)
         ELSE prefix_loop_first_named(slice, pos + 1, "Global")
    ELSE IF c = Hash
    THEN IF element_type = "Standard" /\ from_utf8_ok(slice)
         THEN out("comment", None)
         ELSE out("spin", None)
    ELSE out("name", None)

\* The prefix loop of read (lines 95-143) from position pos on.  exit is
\*   "name"    the loop was left for step 3 (break, or pos reached len)
\*   "error"   read returned with error set
\*   "comment" read returned a Comment
\*   "spin"    the Hash arm fell through with pos unchanged: the loop
\*             repeats the same iteration for ever
RECURSIVE prefix_loop(_, _, _)
prefix_loop(slice, pos, element_type) ==
    LET out(exit, error) ==
            [exit |-> exit, pos |-> pos, element_type |-> element_type, error |-> error]
    IN
    IF pos >= Len(slice) THEN out("name", None)
    ELSE
    LET c == slice[pos + 1] IN
    IF c = Space THEN prefix_loop(slice, pos + 1, element_type)
    ELSE IF ~ is_reserved(c) THEN out("name", None)
    ELSE IF c = At
    THEN IF element_type # "Standard"
         THEN out("error", Some("BadTokenPosAttribute"))
         ELSE prefix_loop(slice, pos + 1, "Attribute")
    ELSE IF c = Bang
    THEN IF element_type # "Standard"
         THEN out("error", Some("BadTokenPosBang"))
         ELSE prefix_loop(slice, pos + 1, "Global")
    ELSE IF c = Hash
    THEN IF element_type = "Standard" /\ from_utf8_ok(slice)
         THEN out("comment", None)
         ELSE out("spin", None)
    ELSE out("name", None)

\* Step 3: slice.iter().position(|&b| b == Space), or len.
name_end(slice) ==
    LET I == { i \in 0 .. Len(slice) - 1 : slice[i + 1] = Space }
    IN  IF I = {} THEN Len(slice) ELSE Min(I)

\* parse_tokens: the first non-space position from start on.
skip_spaces(slice, start) ==
    LET I == { i \in start .. Len(slice) - 1 : slice[i + 1] # Space }
    IN  IF I = {} THEN Len(slice) ELSE Min(I)

new_element(element_type, name) ==
    CASE element_type = "Attribute" -> new_attribute(name)
      [] element_type = "Global" -> new_global(name)
      [] OTHER -> new_standard(name)

\* The ElementParser that read() starts from.
parser_new(line_number) ==
    [ fate |-> "returned", delimiter |-> "Unset", element |-> None,
      error |-> None, line_number |-> line_number, tokens |-> << >> ]

\* read, step 4 once collect_tokens returned walk (parse_tokens, lines
\* 198-199).
read_keyvals(p, el, walk, checks) ==
    IF \/ walk.pass2.failed
       \/ checks /\ \E i \in 1 .. Len(walk.tokens) : token_overflows(walk.tokens[i])
    THEN [p EXCEPT !.fate = "panicked", !.delimiter = walk.delimiter,
                   !.tokens = walk.tokens]
    ELSE [p EXCEPT !.delimiter = walk.delimiter,
                   !.tokens = walk.tokens,
                   !.element = Some(evaluate_keyvals(el, walk.tokens))]

\* read, step 4: parse_tokens from the end of the name.
read_tokens(p, el, slice, start, keys, checks) ==
    IF start >= Len(slice)
    THEN [p EXCEPT !.element = Some(el)]
    ELSE read_keyvals(p, el, collect_tokens(slice, start, keys), checks)

\* read, steps 3 and 4, with the name's raw text cut out of the slice.
read_element(p, element_type, raw, slice, end, keys, checks) ==
    IF checks /\ is_quoted_overflows(raw)
    THEN [p EXCEPT !.fate = "panicked"]
    ELSE read_tokens(p, new_element(element_type, unquote(raw)), slice,
                     skip_spaces(slice, end), keys, checks)

\* read, step 3: the name spans end - pos characters from pos.
read_name(p, element_type, slice, pos, end, keys, checks) ==
    IF ~ from_utf8_ok(slice)
    THEN [p EXCEPT !.error = Some("EolMissingElement")]
    ELSE IF checks /\ end < pos
    THEN [p EXCEPT !.fate = "panicked"]
    ELSE read_element(p, element_type, substring(slice, pos, wrapping_sub(end, pos)),
                      slice, end, keys, checks)

\* read, after the prefix loop ended as pre.
read_prefixed(p, slice, pre, keys, checks) ==
    CASE pre.exit = "error" -> [p EXCEPT !.error = pre.error]
      [] pre.exit = "spin" -> [p EXCEPT !.fate = "hung"]
      [] pre.exit = "comment" ->
            [p EXCEPT !.element =
                Some(new_comment(substring(slice, pre.pos + 1, Len(slice))))]
      [] OTHER -> read_name(p, pre.element_type, slice, pre.pos, name_end(slice),
                            keys, checks)

\* ElementParser::is_ok
is_ok(p) == p.error = None

\* read keeping an element next to the error it sets for an empty line.
read_trimmed_error_and_element(p, slice, keys, checks) ==
    IF Len(slice) = 0
    THEN [p EXCEPT !.error = Some("EolNoData"),
                   !.element = Some(new_standard(<< >>))]
    ELSE read_prefixed(p, slice, prefix_loop(slice, 0, "Standard"), keys, checks)

read_trimmed(p, slice, keys, checks) ==
    IF Len(slice) = 0
    THEN [p EXCEPT !.error = Some("EolNoData")]
    ELSE read_prefixed(p, slice, prefix_loop(slice, 0, "Standard"), keys, checks)

\* ElementParser::read.  fate is "returned", "panicked" (an arithmetic
\* overflow in a build that checks for it) or "hung" (the prefix loop
\* never ends); keys is the iteration order of the literal table.
read(line_number, line, keys, checks) ==
    read_trimmed(parser_new(line_number), str_trim(line), keys, checks)

-----------------------------------------------------------------------------
(* lib.rs: ParseResult, YesDocParser                                       *)

\* ParseResult::error
ParseResult_error(line_number, code) ==
    [ tag |-> "Err", line_number |-> line_number,
      message |-> ErrorCodes_values(code), code |-> code ]

ParseResult_ok(line_number, data) ==
    [ tag |-> "Ok", line_number |-> line_number, data |-> data ]

\* organize: the (line_number, is_global) pair the comparator reads.
is_global(r) == r.tag = "Ok" /\ r.data.kind = "Global"

\* A comparator that forgets the hoisting of globals.
compare_line_numbers(a, b) ==
    IF a.line_number < b.line_number THEN "Less"
    ELSE IF a.line_number > b.line_number THEN "Greater"
    ELSE "Equal"

\* organize: the comparator handed to sort_by.
compare(a, b) ==
    CASE is_global(a) /\ ~ is_global(b) -> "Less"
      [] ~ is_global(a) /\ is_global(b) -> "Greater"
      [] OTHER -> IF a.line_number < b.line_number THEN "Less"
                  ELSE IF a.line_number > b.line_number THEN "Greater"
                  ELSE "Equal"

\* slice::sort_by is a stable sort: x goes behind every entry that does not
\* compare Greater than it.
RECURSIVE stable_insert(_, _)
stable_insert(sorted, x) ==
    IF sorted = << >> THEN << x >>
    ELSE IF compare(sorted[Len(sorted)], x) = "Greater"
    THEN Append(stable_insert(SubSeq(sorted, 1, Len(sorted) - 1), x), sorted[Len(sorted)])
    ELSE Append(sorted, x)

RECURSIVE sort_by(_)
sort_by(v) ==
    IF v = << >> THEN << >>
    ELSE stable_insert(sort_by(SubSeq(v, 1, Len(v) - 1)), v[Len(v)])

\* line.ends_with('\\')
\* line.ends_with(backslash) answering false for every line.
ends_with_backslash_never(line) == FALSE

ends_with_backslash(line) == Len(line) > 0 /\ line[Len(line)] = Backslash

\* line.replace('\\', ""): every backslash of the line goes.
replace_backslash(line) ==
    LET keep(b) == b # Backslash IN SelectSeq(line, keep)

\* A continuation line that leaves no pending buffer.
extend_building_line_dropped(building, line) == None

\* process, lines 186-190: the pending buffer after a continuation line.
extend_building_line(building, line) ==
    IF building # None THEN Some(building[1] \o line) ELSE Some(line)

\* process, lines 193-195: the line handed to read.
assembled_line(building, line) ==
    IF building # None THEN building[1] \o line ELSE line

\* No element is kept off the results.
consumed_never(el) == FALSE

\* process, lines 208-225: whether the element is kept off the results.
consumed(el) == el.kind = "Attribute"

\* The queue drained last-in first-out.
drain_attrs_lifo(own, queue) ==
    own \o [i \in 1 .. Len(queue) |-> Elements_copy(queue[Len(queue) + 1 - i])]

\* process, lines 217-221: the queued attributes are copied behind the
\* Standard's own attrs.
drain_attrs(own, queue) ==
    own \o [i \in 1 .. Len(queue) |-> Elements_copy(queue[i])]

\* The counter read before its increment.
ok_line_number_before(counter) == counter - 1

\* process, line 232: the line number of an Ok entry.
ok_line_number(counter) == counter

\* The iteration orders a HashMap may give the literal table, up to what
\* the scan can tell apart: it takes the first key whose begin byte is the
\* current byte, so only the order among keys of one begin byte matters;
\* keys of different begin bytes are kept in the order of lits.
KeyOrders(lits) ==
    LET K == { lits[i] : i \in 1 .. Len(lits) }
        first(b) == Min({ i \in 1 .. Len(lits) : lits[i].begin = b })
    IN  { o \in [1 .. Cardinality(K) -> K] :
            \A i, j \in 1 .. Cardinality(K) :
                /\ i # j => o[i] # o[j]
                /\ (i < j /\ o[i].begin # o[j].begin) =>
                        first(o[i].begin) < first(o[j].begin) }

\* The quote literal pushed at the back of the caller's literals.
entry_literals_quotes_last(custom) ==
    (IF custom = None THEN << >> ELSE custom[1]) \o << build_quotes >>

\* from_string / from_file: literals.insert(0, Literal::build_quotes()).
entry_literals(custom) ==
    << build_quotes >> \o (IF custom = None THEN << >> ELSE custom[1])

\* process, lines 201-206: the error of a failed read is pushed.
push_error(res, ep) ==
    IF ep.error # None
    THEN Append(res, ParseResult_error(ep.line_number, ep.error[1]))
    ELSE res

\* process, lines 208-236, for a read that returned the element el.
Dispatch(n, el, errs) ==
    /\ pc' = pc
    /\ IF consumed(el)
       THEN /\ attrs' = Append(attrs, Elements_copy(el.element))
            /\ results' = errs
       ELSE IF el.kind = "Standard"
       THEN /\ attrs' = << >>
            /\ results' = Append(errs,
                   ParseResult_ok(ok_line_number(n),
                                  [el EXCEPT !.attrs = drain_attrs(@, attrs)]))
       ELSE /\ attrs' = attrs
            /\ results' = Append(errs, ParseResult_ok(ok_line_number(n), el))

\* process, lines 197-237: the assembled line is read and the outcome
\* recorded.
ProcessLine(n, full, ep) ==
    /\ building_line' = None
    /\ read_calls' = Append(read_calls, [line_number |-> n, line |-> full,
                                         literals |-> literals])
    /\ element_parser' =
          Some([ fate |-> ep.fate, delimiter |-> ep.delimiter,
                 element |-> ep.element, error |-> ep.error,
                 line_number |-> ep.line_number ])
    /\ walk_info' = ep.tokens
    /\ CASE ep.fate = "hung" ->
              /\ pc' = "hung"
              /\ UNCHANGED << attrs, results >>
         [] ep.fate = "panicked" ->
              /\ pc' = "panicked"
              /\ UNCHANGED << attrs, results >>
         [] ep.fate = "returned" /\ ep.element = None ->
              \* element.expect(..) on None
              /\ pc' = "panicked"
              /\ results' = push_error(results, ep)
              /\ UNCHANGED attrs
         [] OTHER -> Dispatch(n, ep.element[1], push_error(results, ep))

\* process, lines 182-192: a line ending with a backslash goes to the
\* pending buffer.
Continue(line) ==
    /\ building_line' = extend_building_line(building_line, replace_backslash(line))
    /\ UNCHANGED << attrs, results, element_parser, walk_info, read_calls, pc >>

ProcessPhysical(n, line) ==
    /\ total_lines' = n
    /\ IF ends_with_backslash(line)
       THEN Continue(line)
       ELSE \E keys \in KeyOrders(literals) :
                ProcessLine(n, assembled_line(building_line, line),
                            read(n, assembled_line(building_line, line), keys,
                                 overflow_checks))

\* YesDocParser::process on the next physical line.
Process ==
    /\ pc = "process"
    /\ total_lines < Len(lines)
    /\ ProcessPhysical(total_lines + 1, lines[total_lines + 1])
    /\ UNCHANGED << lines, literals, overflow_checks, call, ret >>

\* from_string / from_file once every line was processed: organize() and
\* the return of parser.results.
Organize ==
    /\ pc = "process"
    /\ total_lines = Len(lines)
    /\ results' = sort_by(results)
    /\ pc' = "returned"
    /\ UNCHANGED << lines, literals, overflow_checks, total_lines, building_line,
                    attrs, element_parser, walk_info, read_calls, call, ret >>

-----------------------------------------------------------------------------
(* Inputs.                                                                 *)

Ch == [ a |-> 97, b |-> 98, c |-> 99, g |-> 103, h |-> 104, k |-> 107,
        v |-> 118, x |-> 120, lbracket |-> 91, rbracket |-> 93,
        rparen |-> 41 ]

\* The literal `[`..`]` of tests::parse_multiline.
Bracket == Literal(Ch.lbracket, Ch.rbracket)

\* What a caller passes for `literals`.
CallerLiterals == { None, Some(<< >>), Some(<< Bracket >>) }

\* YesDocParser::from_string and YesDocParser::from_file.
EntryPoints == { "from_string", "from_file" }

SeqsUpTo(S, n) == UNION { [1 .. m -> S] : m \in 0 .. n }

\* The physical lines of the driver's documents:
\*   (empty)   a   @b   @c   !g   #h   a\   \b\
LinePool ==
    { << >>,
      << Ch.a >>,
      << At, Ch.b >>,
      << At, Ch.c >>,
      << Bang, Ch.g >>,
      << Hash, Ch.h >>,
      << Ch.a, Backslash >>,
      << Backslash, Ch.b, Backslash >> }

\* The state in which the entry point `entry` (from_string or from_file)
\* starts on the lines of doc, called with the literals custom.
DriverInit(entry, doc, custom, checks) ==
    /\ lines = doc
    /\ literals = entry_literals(custom)
    /\ overflow_checks = checks
    /\ total_lines = 0
    /\ building_line = None
    /\ attrs = << >>
    /\ results = << >>
    /\ element_parser = None
    /\ walk_info = << >>
    /\ read_calls = << >>
    /\ pc = "process"
    /\ call = [op |-> entry, literals |-> custom]
    /\ ret = None

\* Documents of up to MaxLines lines.
Init ==
    \E doc \in SeqsUpTo(LinePool, MaxLines), custom \in CallerLiterals,
       checks \in BOOLEAN, entry \in EntryPoints :
        DriverInit(entry, doc, custom, checks)

Next == Process \/ Organize

Spec == Init /\ [][Next]_vars

\* The bytes of the lexer specification's lines:  @ ! # space " a
LexAlphabet == { At, Bang, Hash, Space, Quote, Ch.a }

\* Documents of one line of up to MaxLexLen bytes: every combination of
\* prefix bytes, spaces, quotes and a name byte.
InitLex ==
    \E line \in SeqsUpTo(LexAlphabet, MaxLexLen), checks \in BOOLEAN :
        DriverInit("from_string", << line >>, None, checks)

SpecLex == InitLex /\ [][Next]_vars

\* The bytes of the scanner specification's argument ranges:
\*   a = , space " [ ]
ArgAlphabet == { Ch.a, Equal, Comma, Space, Quote, Ch.lbracket, Ch.rbracket }

\* Documents of one line `x <args>` with up to MaxArgLen argument bytes,
\* parsed with the caller's literal `[`..`]` registered.
InitScan ==
    \E args \in SeqsUpTo(ArgAlphabet, MaxArgLen), checks \in BOOLEAN :
        DriverInit("from_string", << << Ch.x, Space >> \o args >>,
                   Some(<< Bracket >>), checks)

SpecScan == InitScan /\ [][Next]_vars

\* A second literal with the begin byte of Bracket: `[`..`)`.
HalfOpen == Literal(Ch.lbracket, Ch.rparen)

\* The bytes of the argument ranges scanned with Bracket and HalfOpen:
\*   a space [ ] )
SharedAlphabet == { Ch.a, Space, Ch.lbracket, Ch.rbracket, Ch.rparen }

\* Documents of one line `x <args>` with up to MaxSharedLen argument bytes,
\* parsed with two caller literals that share their begin byte.
InitShared ==
    \E args \in SeqsUpTo(SharedAlphabet, MaxSharedLen), checks \in BOOLEAN :
        DriverInit("from_string", << << Ch.x, Space >> \o args >>,
                   Some(<< Bracket, HalfOpen >>), checks)

SpecShared == InitShared /\ [][Next]_vars

\* The args an Element may hold and the KeyVals upserted into it: keys
\* k, g or none, values a or b.
KeyValPool ==
    { KeyVal_new(key, val) :
        key \in { None, Some(<< Ch.k >>), Some(<< Ch.g >>) },
        val \in { << Ch.a >>, << Ch.b >> } }

\* A direct call of Element::upsert.
InitUpsert ==
    /\ call \in { [op |-> "upsert", args |-> a, kv |-> kv] :
                    a \in SeqsUpTo(KeyValPool, MaxArgs), kv \in KeyValPool }
    /\ ret = None
    /\ lines = << >>
    /\ literals = entry_literals(None)
    /\ overflow_checks = FALSE
    /\ total_lines = 0
    /\ building_line = None
    /\ attrs = << >>
    /\ results = << >>
    /\ element_parser = None
    /\ walk_info = << >>
    /\ read_calls = << >>
    /\ pc = "call"

CallUpsert ==
    /\ pc = "call"
    /\ call.op = "upsert"
    /\ ret' = Some(upsert(call.args, call.kv))
    /\ pc' = "called"
    /\ UNCHANGED << lines, literals, overflow_checks, total_lines, building_line,
                    attrs, results, element_parser, walk_info, read_calls, call >>

SpecUpsert == InitUpsert /\ [][CallUpsert]_vars

\* The bytes Literal::new is called with: every glyph of the grammar, the
\* brackets, a letter and the zero byte.
LiteralBytes ==
    { At, Bang, Comma, Equal, Hash, Quote, Space, Backslash,
      Ch.lbracket, Ch.rbracket, Ch.a, 0 }

\* A direct call of Literal::new.
InitLiteral ==
    /\ call \in { [op |-> "Literal_new", begin |-> b, end |-> e] :
                    b \in LiteralBytes, e \in LiteralBytes }
    /\ ret = None
    /\ lines = << >>
    /\ literals = entry_literals(None)
    /\ overflow_checks = FALSE
    /\ total_lines = 0
    /\ building_line = None
    /\ attrs = << >>
    /\ results = << >>
    /\ element_parser = None
    /\ walk_info = << >>
    /\ read_calls = << >>
    /\ pc = "call"

CallLiteralNew ==
    /\ pc = "call"
    /\ call.op = "Literal_new"
    /\ ret' = Some(Literal_new(call.begin, call.end))
    /\ pc' = "called"
    /\ UNCHANGED << lines, literals, overflow_checks, total_lines, building_line,
                    attrs, results, element_parser, walk_info, read_calls, call >>

SpecLiteral == InitLiteral /\ [][CallLiteralNew]_vars

\* The characters of the strings the utilities are called on: a quote, a
\* space, the letter a and the two-byte character e-acute.
StringChars == { << Quote >>, << Space >>, << Ch.a >>, << 195, 169 >> }

Strings == { Flatten(cs) : cs \in SeqsUpTo(StringChars, MaxStrLen) }

\* A String on which StringUtils methods are called one after the other;
\* call.vals holds the string before the first call and after each call.
InitString ==
    /\ call \in { [op |-> "string", ops |-> << >>, vals |-> << s >>] : s \in Strings }
    /\ overflow_checks \in BOOLEAN
    /\ ret = None
    /\ lines = << >>
    /\ literals = entry_literals(None)
    /\ total_lines = 0
    /\ building_line = None
    /\ attrs = << >>
    /\ results = << >>
    /\ element_parser = None
    /\ walk_info = << >>
    /\ read_calls = << >>
    /\ pc = "call"

\* The String the next method is called on.
self == call.vals[Len(call.vals)]

\* One method call: it panics where is_quoted overflows in a build that
\* checks, else leaves the String as value and returns result.
CallString(name, overflows, value, result) ==
    /\ pc = "call"
    /\ call.op = "string"
    /\ Len(call.ops) < MaxOps
    /\ IF overflow_checks /\ overflows
       THEN /\ pc' = "panicked"
            /\ call' = [call EXCEPT !.ops = Append(@, name)]
            /\ ret' = None
       ELSE /\ pc' = pc
            /\ call' = [call EXCEPT !.ops = Append(@, name), !.vals = Append(@, value)]
            /\ ret' = result
    /\ UNCHANGED << lines, literals, overflow_checks, total_lines, building_line,
                    attrs, results, element_parser, walk_info, read_calls >>

CallIsQuoted ==
    CallString("is_quoted", is_quoted_overflows(self), self, Some(is_quoted(self)))

CallQuote == CallString("quote", is_quoted_overflows(self), quote(self), None)

CallUnquote == CallString("unquote", is_quoted_overflows(self), unquote(self), None)

CallTrim == CallString("trim", FALSE, trim(self), None)

NextString == CallIsQuoted \/ CallQuote \/ CallUnquote \/ CallTrim

SpecString == InitString /\ [][NextString]_vars

\* The KeyVals upserted into an Element before it is displayed: no key, the
\* key k or the key `k k`, with the value a or the value `a a`.
DisplayPool ==
    { KeyVal_new(key, val) :
        key \in { None, Some(<< Ch.k >>), Some(<< Ch.k, Space, Ch.k >>) },
        val \in { << Ch.a >>, << Ch.a, Space, Ch.a >> } }

\* A new Element, on which upsert is called some times and whose args are
\* then turned into strings.
InitDisplay ==
    /\ call = [op |-> "display", element |-> Element_new(<< Ch.x >>), upserts |-> 0]
    /\ ret = None
    /\ lines = << >>
    /\ literals = entry_literals(None)
    /\ overflow_checks = FALSE
    /\ total_lines = 0
    /\ building_line = None
    /\ attrs = << >>
    /\ results = << >>
    /\ element_parser = None
    /\ walk_info = << >>
    /\ read_calls = << >>
    /\ pc = "call"

UpsertArg ==
    /\ pc = "call"
    /\ call.op = "display"
    /\ call.upserts < MaxUpserts
    /\ \E kv \in DisplayPool :
          call' = [call EXCEPT !.element.args = upsert(@, kv), !.upserts = @ + 1]
    /\ UNCHANGED << lines, literals, overflow_checks, total_lines, building_line,
                    attrs, results, element_parser, walk_info, read_calls, pc, ret >>

\* to_string of every arg of the Element, in order.
DisplayArgs ==
    /\ pc = "call"
    /\ call.op = "display"
    /\ ret' = Some([i \in 1 .. Len(call.element.args) |->
                        KeyVal_to_string(call.element.args[i])])
    /\ pc' = "called"
    /\ UNCHANGED << lines, literals, overflow_checks, total_lines, building_line,
                    attrs, results, element_parser, walk_info, read_calls, call >>

NextDisplay == UpsertArg \/ DisplayArgs

SpecDisplay == InitDisplay /\ [][NextDisplay]_vars

\* A direct call of Element::has_keys, with keys among k, g and h.
InitHasKeys ==
    /\ call \in { [op |-> "has_keys", args |-> a, keys |-> ks] :
                    a \in SeqsUpTo(KeyValPool, MaxArgs),
                    ks \in SeqsUpTo({ << Ch.k >>, << Ch.g >>, << Ch.h >> }, MaxKeys) }
    /\ ret = None
    /\ lines = << >>
    /\ literals = entry_literals(None)
    /\ overflow_checks = FALSE
    /\ total_lines = 0
    /\ building_line = None
    /\ attrs = << >>
    /\ results = << >>
    /\ element_parser = None
    /\ walk_info = << >>
    /\ read_calls = << >>
    /\ pc = "call"

CallHasKeys ==
    /\ pc = "call"
    /\ call.op = "has_keys"
    /\ ret' = Some(has_keys(call.args, call.keys))
    /\ pc' = "called"
    /\ UNCHANGED << lines, literals, overflow_checks, total_lines, building_line,
                    attrs, results, element_parser, walk_info, read_calls, call >>

SpecHasKeys == InitHasKeys /\ [][CallHasKeys]_vars

\* The lines of documents whose lines carry args:
\*   x a,a   x a a   x a   x [) ]
ModePool ==
    { << Ch.x, Space, Ch.a, Comma, Ch.a >>,
      << Ch.x, Space, Ch.a, Space, Ch.a >>,
      << Ch.x, Space, Ch.a >>,
      << Ch.x, Space, Ch.lbracket, Ch.rparen, Space, Ch.rbracket >> }

\* Documents of up to MaxLines such lines, parsed with the quote literal
\* alone or with two caller literals that share their begin byte.
InitModes ==
    \E doc \in SeqsUpTo(ModePool, MaxLines),
       custom \in { None, Some(<< Bracket, HalfOpen >>) },
       checks \in BOOLEAN :
        DriverInit("from_string", doc, custom, checks)

SpecModes == InitModes /\ [][Next]_vars

\* The characters of the lines with non-ASCII text: the two-byte character
\* e-acute, the letter a, a space and a comma.
Utf8Chars == { << 195, 169 >>, << Ch.a >>, << Space >>, << Comma >> }

\* Documents of one line of up to MaxUtfLen such characters.
InitUtf8 ==
    \E cs \in SeqsUpTo(Utf8Chars, MaxUtfLen), checks \in BOOLEAN :
        DriverInit("from_string", << Flatten(cs) >>, None, checks)

SpecUtf8 == InitUtf8 /\ [][Next]_vars

\* The bytes of the argument ranges with repeated keys:  a b = space
KeyAlphabet == { Ch.a, Ch.b, Equal, Space }

\* Documents of one line `x <args>` with up to MaxKeyArgLen argument bytes.
InitKeys ==
    \E args \in SeqsUpTo(KeyAlphabet, MaxKeyArgLen), checks \in BOOLEAN :
        DriverInit("from_string", << << Ch.x, Space >> \o args >>, None, checks)

SpecKeys == InitKeys /\ [][Next]_vars

-----------------------------------------------------------------------------
(* What the driver's results are compared with.                            *)

\* The outcome of ElementParser::read on the line of a recorded call.
ReadOf(c) ==
    read(c.line_number, c.line, CHOOSE o \in KeyOrders(literals) : TRUE,
         overflow_checks)

\* The kind of element a recorded call produced ("None" when it produced
\* none).
KindOf(c) ==
    LET r == ReadOf(c)
    IN  IF r.fate = "returned" /\ r.element # None THEN r.element[1].kind ELSE "None"

\* The index in read_calls of the call made for physical line n.
CallAt(n) == CHOOSE k \in 1 .. Len(read_calls) : read_calls[k].line_number = n

HasCallAt(n) == \E k \in 1 .. Len(read_calls) : read_calls[k].line_number = n

\* The last Standard call before call k (0 when there is none).
PrevStandard(k) ==
    LET S == { j \in 1 .. k - 1 : KindOf(read_calls[j]) = "Standard" }
    IN  IF S = {} THEN 0 ELSE Max(S)

\* The elements of the Attribute calls among calls lo..hi, in call order.
RECURSIVE AttributesBetween(_, _)
AttributesBetween(lo, hi) ==
    IF lo > hi THEN << >>
    ELSE IF KindOf(read_calls[lo]) = "Attribute"
    THEN << ReadOf(read_calls[lo]).element[1].element >> \o AttributesBetween(lo + 1, hi)
    ELSE AttributesBetween(lo + 1, hi)

\* A physical line with exactly its last byte removed.
WithoutLastByte(line) == SubSeq(line, 1, Len(line) - 1)

\* The concatenation of physical lines lo..hi, each without its last byte.
RECURSIVE Fragments(_, _)
Fragments(lo, hi) ==
    IF lo > hi THEN << >>
    ELSE WithoutLastByte(lines[lo]) \o Fragments(lo + 1, hi)

\* The physical line that ended the logical line before the one ending at n.
PrevCompleted(n) ==
    LET S == { j \in 1 .. n - 1 : ~ ends_with_backslash(lines[j]) }
    IN  IF S = {} THEN 0 ELSE Max(S)

-----------------------------------------------------------------------------
(* Claims about the document driver, checked under Spec.                   *)

\* C1: a line for which the lexer reports an error is captured as one Err
\* entry and never aborts the run: the driver goes on to the later lines
\* and returns its result list.
C1_ErrorLineNeverAborts ==
    \A k \in 1 .. Len(read_calls) :
        LET r == ReadOf(read_calls[k]) IN
        (r.fate = "returned" /\ r.error # None) =>
            /\ pc # "panicked"
            /\ \E i \in 1 .. Len(results) :
                  /\ results[i].tag = "Err"
                  /\ results[i].line_number = read_calls[k].line_number

\* C2: in the returned list every Ok(Global) comes before every other
\* entry, and inside the Global group and inside the group of the others
\* the line numbers increase.
C2_GlobalsFirstStable ==
    pc = "returned" =>
        \A i, j \in 1 .. Len(results) :
            i < j =>
                /\ is_global(results[j]) => is_global(results[i])
                /\ (is_global(results[i]) <=> is_global(results[j])) =>
                      results[i].line_number < results[j].line_number

\* C2 witness: a Global was hoisted over an entry of an earlier line.
C2_Witness ==
    /\ pc = "returned"
    /\ \E i, j \in 1 .. Len(results) :
          /\ i < j
          /\ is_global(results[i])
          /\ ~ is_global(results[j])
          /\ results[i].line_number > results[j].line_number

\* C3: the attrs of every Standard entry are, in source order, exactly the
\* Attribute elements parsed since the previous Standard (or the start of
\* input), whatever Global or Comment lines lie between; once a Standard
\* was emitted the attribute queue is empty.
C3_AttrsAttachForward ==
    /\ \A i \in 1 .. Len(results) :
          (results[i].tag = "Ok" /\ results[i].data.kind = "Standard") =>
              LET k == CallAt(results[i].line_number) IN
              /\ HasCallAt(results[i].line_number)
              /\ results[i].data.attrs = AttributesBetween(PrevStandard(k) + 1, k - 1)
    /\ (Len(read_calls) > 0 /\ KindOf(read_calls[Len(read_calls)]) = "Standard")
          => attrs = << >>

\* C3 witness: a Standard carries two different attributes.
C3_Witness ==
    \E i \in 1 .. Len(results) :
        /\ results[i].tag = "Ok"
        /\ results[i].data.kind = "Standard"
        /\ Len(results[i].data.attrs) = 2
        /\ results[i].data.attrs[1] # results[i].data.attrs[2]

\* C4: no entry of the results is Ok(Attribute); an attribute line adds no
\* entry, and attributes still queued at the end of input leave no entry
\* and no error.
C4_NoTopLevelAttribute ==
    /\ \A i \in 1 .. Len(results) :
          /\ ~ (results[i].tag = "Ok" /\ results[i].data.kind = "Attribute")
          /\ HasCallAt(results[i].line_number)
          /\ KindOf(read_calls[CallAt(results[i].line_number)]) # "Attribute"
    /\ pc = "returned" =>
          Len(results) =
              Cardinality({ k \in 1 .. Len(read_calls) :
                              KindOf(read_calls[k]) # "Attribute" })

\* C4 witness: the run returned entries while attributes were still queued.
C4_Witness ==
    /\ pc = "returned"
    /\ Len(attrs) > 0
    /\ Len(results) > 0

\* C5: every result's line_number is the 1-based index of the physical line
\* that completed its logical line (for lines joined by trailing
\* backslashes, the last of them), between 1 and the number of lines read.
C5_LineNumberOfLastPhysicalLine ==
    \A i \in 1 .. Len(results) :
        LET n == results[i].line_number IN
        /\ n \in 1 .. total_lines
        /\ ~ ends_with_backslash(lines[n])
        /\ HasCallAt(n)
        /\ LET r == ReadOf(read_calls[CallAt(n)]) IN
           IF results[i].tag = "Err"
           THEN r.error = Some(results[i].code)
           ELSE /\ r.element # None
                /\ r.element[1].kind = results[i].data.kind
                /\ r.element[1].element = results[i].data.element

\* C5 witness: a result for a logical line of several physical lines.
C5_Witness ==
    \E i \in 1 .. Len(results) :
        /\ results[i].line_number >= 2
        /\ ends_with_backslash(lines[results[i].line_number - 1])

\* C6: of a physical line ending with a backslash exactly that trailing
\* backslash is removed and the rest appended to the pending buffer; the
\* line parsed is the concatenation of the buffered fragments, in order,
\* followed by the terminating line.
C6_OnlyTrailingBackslashRemoved ==
    /\ \A k \in 1 .. Len(read_calls) :
          LET n == read_calls[k].line_number IN
          read_calls[k].line = Fragments(PrevCompleted(n) + 1, n - 1) \o lines[n]
    /\ building_line # None =>
          building_line[1] = Fragments(PrevCompleted(total_lines + 1) + 1, total_lines)

-----------------------------------------------------------------------------
(* Claims about the lexer, checked under SpecLex.                          *)

\* C7: ElementParser::read terminates on every line, whatever prefix bytes
\* (`@`, `!`, `#`), spaces and other bytes the line starts with.
C7_ReadTerminates == pc # "hung"

-----------------------------------------------------------------------------
(* Claims about Element::upsert, checked under SpecUpsert.                 *)

\* C8: a KeyVal whose key equals the key of an existing arg overwrites the
\* value of the first such arg in place, the length of args and every other
\* arg unchanged; a keyed KeyVal matching no arg is appended at the end; a
\* nameless KeyVal is always appended.
C8_UpsertInPlaceOrAppend ==
    (pc = "called" /\ call.op = "upsert") =>
        LET a  == call.args
            kv == call.kv
            r  == ret[1]
            M  == { i \in 1 .. Len(a) : kv.key # None /\ a[i].key = kv.key }
        IN  IF M = {}
            THEN /\ Len(r) = Len(a) + 1
                 /\ r[Len(r)] = kv
                 /\ \A i \in 1 .. Len(a) : r[i] = a[i]
            ELSE /\ Len(r) = Len(a)
                 /\ r[Min(M)].val = kv.val
                 /\ r[Min(M)].key = a[Min(M)].key
                 /\ \A i \in 1 .. Len(a) : i # Min(M) => r[i] = a[i]

\* C8 witness: the first of two args with the key was overwritten by a new
\* value.
C8_Witness ==
    /\ pc = "called"
    /\ call.op = "upsert"
    /\ Len(call.args) = 2
    /\ call.args[1].key = call.kv.key
    /\ call.args[2].key = call.kv.key
    /\ call.kv.key # None
    /\ call.args[1].val # call.kv.val
    /\ ret[1][1].val = call.kv.val

-----------------------------------------------------------------------------
(* Claims about the token scanner, checked under SpecScan.  The literal    *)
(* spans below are the specification's: a span opens at the begin byte of  *)
(* a registered literal met outside every span and closes at the next end  *)
(* byte of that literal, or at the end of the line when there is none.     *)

\* The 0-based positions of slice from j on that lie inside a literal span;
\* closing is the end byte of the span open at j, if any.
RECURSIVE SpanPositions(_, _, _)
SpanPositions(slice, j, closing) ==
    IF j >= Len(slice) THEN {}
    ELSE IF closing # None
    THEN {j} \cup SpanPositions(slice, j + 1,
                                IF slice[j + 1] = closing[1] THEN None ELSE closing)
    ELSE LET L == { i \in 1 .. Len(literals) : literals[i].begin = slice[j + 1] }
         IN  IF L = {}
             THEN SpanPositions(slice, j + 1, None)
             ELSE {j} \cup SpanPositions(slice, j + 1, Some(literals[Min(L)].end))

\* The trimmed line of the last call of read and the start of its argument
\* range: the first non-space byte after the name.
ArgSlice == str_trim(read_calls[Len(read_calls)].line)

ArgStart == skip_spaces(ArgSlice, name_end(ArgSlice))

ArgSpans == SpanPositions(ArgSlice, ArgStart, None)

\* Whether the last call of read had an argument range to scan.
ArgsScanned == read_calls # << >> /\ ArgStart < Len(ArgSlice)

\* The position in ArgSlice of the first byte of token i of walk_info: each
\* token starts one byte after the delimiter that ended the previous one.
RECURSIVE TokenOffset(_)
TokenOffset(i) ==
    IF i = 1 THEN ArgStart
    ELSE TokenOffset(i - 1) + Len(walk_info[i - 1].data) + 1

\* The first `=` of token i outside every literal span, relative to the
\* token's start.
FirstEqualOutsideSpans(i) ==
    LET off   == TokenOffset(i)
        slice == ArgSlice
        spans == ArgSpans
        J     == { j \in off .. off + Len(walk_info[i].data) - 1 :
                      slice[j + 1] = Equal /\ j \notin spans }
    IN  IF J = {} THEN None ELSE Some(Min(J) - off)

\* C9: every token is split into key and value at its first `=` outside
\* every literal span: the pivot of a token with several such `=`
\* (`a=b=c`) is the first one, so the key is the text before it and the
\* value everything after it.
C9_SplitAtFirstEqual ==
    ArgsScanned =>
        \A i \in 1 .. Len(walk_info) :
            walk_info[i].pivot = FirstEqualOutsideSpans(i)

\* The positions of the argument range holding a `,` outside every span,
\* and those holding one inside a span.
CommasOutsideSpans ==
    LET slice == ArgSlice
        spans == ArgSpans
    IN  { j \in ArgStart .. Len(slice) - 1 :
            slice[j + 1] = Comma /\ j \notin spans }

CommasInsideSpans ==
    LET slice == ArgSlice
        spans == ArgSpans
    IN  { j \in ArgStart .. Len(slice) - 1 :
            slice[j + 1] = Comma /\ j \in spans }

\* ArgSlice with the letter a in place of every `,` inside a span.
CommasMasked ==
    LET slice  == ArgSlice
        inside == CommasInsideSpans
    IN  [ i \in 1 .. Len(slice) |->
            IF (i - 1) \in inside THEN Ch.a ELSE slice[i] ]

\* C10: the delimiter of an argument range is Comma whenever some `,` lies
\* outside every literal span, and a `,` inside a literal span has no part
\* in the choice: the delimiter is the one chosen for the same range with
\* another byte in place of every `,` inside a span.
C10_CommaRule ==
    (ArgsScanned /\ element_parser[1].fate = "returned") =>
        /\ CommasOutsideSpans # {} => element_parser[1].delimiter = "Comma"
        /\ CommasInsideSpans # {} =>
              element_parser[1].delimiter =
                 collect_tokens(CommasMasked, ArgStart,
                                CHOOSE o \in KeyOrders(literals) : TRUE).delimiter

\* C10 witness: a range with a `,` inside a span and a `,` outside every
\* span was read with the Comma delimiter.
C10_Witness ==
    /\ ArgsScanned
    /\ element_parser[1].fate = "returned"
    /\ CommasInsideSpans # {}
    /\ CommasOutsideSpans # {}
    /\ element_parser[1].delimiter = "Comma"

\* Whether position j of slice belongs to a token run: it lies inside a
\* literal span or holds neither a space nor `=`.
InTokenRun(slice, spans, j) ==
    j \in spans \/ (slice[j + 1] # Space /\ slice[j + 1] # Equal)

\* The number of token runs that start among positions lo..hi.
TokenRuns(slice, spans, lo, hi) ==
    Cardinality({ j \in lo .. hi :
                    /\ InTokenRun(slice, spans, j)
                    /\ (j = ArgStart \/ ~ InTokenRun(slice, spans, j - 1)) })

\* The spaces counted among positions lo..hi: those that close a token run
\* and are followed by no further token byte up to hi.
SpaceCount(slice, spans, lo, hi) ==
    Cardinality({ j \in lo .. hi :
                    /\ slice[j + 1] = Space
                    /\ j \notin spans
                    /\ j > ArgStart
                    /\ InTokenRun(slice, spans, j - 1)
                    /\ \A k \in j + 1 .. hi : ~ InTokenRun(slice, spans, k) })

\* The shape "one key = value pair with surrounding spaces" of the argument
\* range: exactly one `=` outside literals, one token before it, at most
\* one after it, space counts differing by at most 1, a space seen.
SingleKeyValShape ==
    LET slice  == ArgSlice
        spans  == ArgSpans
        last   == Len(slice) - 1
        equals == { j \in ArgStart .. last : slice[j + 1] = Equal /\ j \notin spans }
        eq     == Min(equals)
    IN  /\ Cardinality(equals) = 1
        /\ TokenRuns(slice, spans, ArgStart, eq - 1) = 1
        /\ TokenRuns(slice, spans, eq + 1, last) <= 1
        /\ abs_diff(SpaceCount(slice, spans, ArgStart, eq - 1),
                    SpaceCount(slice, spans, eq + 1, last)) <= 1
        /\ \E j \in ArgStart .. last : slice[j + 1] = Space /\ j \notin spans

RECURSIVE ClosedSpanPositions(_, _, _, _)
ClosedSpanPositions(slice, j, closing, open) ==
    IF j >= Len(slice) THEN {}
    ELSE IF closing # None
    THEN IF slice[j + 1] = closing[1]
         THEN open \cup {j} \cup ClosedSpanPositions(slice, j + 1, None, {})
         ELSE ClosedSpanPositions(slice, j + 1, closing, open \cup {j})
    ELSE LET L == { i \in 1 .. Len(literals) : literals[i].begin = slice[j + 1] }
         IN  IF L = {}
             THEN ClosedSpanPositions(slice, j + 1, None, {})
             ELSE ClosedSpanPositions(slice, j + 1, Some(literals[Min(L)].end), {j})

ArgClosedSpans == ClosedSpanPositions(ArgSlice, ArgStart, None, {})

\* The positions of ArgSlice at which walk_info was split (the delimiter
\* byte after each token that has one) and those of the tokens' pivots.
SplitPositions ==
    { TokenOffset(i) + Len(walk_info[i].data) : i \in 1 .. Len(walk_info) }
        \cap (0 .. Len(ArgSlice) - 1)

PivotPositions ==
    { TokenOffset(i) + walk_info[i].pivot[1] :
        i \in { k \in 1 .. Len(walk_info) : walk_info[k].pivot # None } }

\* C12: no byte inside a terminated literal span splits a token or becomes
\* a token's key/value pivot, whichever delimiter was chosen.
C12_TerminatedSpansAreOpaque ==
    (ArgsScanned /\ element_parser[1].fate = "returned") =>
        LET closed == ArgClosedSpans
        IN  /\ SplitPositions \cap closed = {}
            /\ PivotPositions \cap closed = {}

\* The two passes of collect_tokens over the argument range of the last
\* call of read.
ArgWalk ==
    collect_tokens(ArgSlice, ArgStart, CHOOSE o \in KeyOrders(literals) : TRUE)

\* The positions pass 1 examined: up to the `,` that ended it, or the
\* whole range.
ScannedByPass1(walk) ==
    IF walk.pass1.delimiter = "Comma"
    THEN ArgStart .. walk.pass1.curr
    ELSE ArgStart .. Len(ArgSlice) - 1

\* C13: both passes of collect_tokens treat the same byte positions as
\* inside a literal span, over the positions pass 1 examined, also when a
\* literal span is never closed.
C13_PassesAgreeOnSpans ==
    (ArgsScanned /\ element_parser[1].fate = "returned") =>
        LET walk == ArgWalk
        IN  walk.pass1.inside = walk.pass2.inside \cap ScannedByPass1(walk)

-----------------------------------------------------------------------------
(* Claims about the key/value evaluator, checked under SpecScan.           *)

\* A token without its leading spaces.
RECURSIVE WithoutLeadingSpaces(_)
WithoutLeadingSpaces(s) ==
    IF s # << >> /\ Head(s) = Space THEN WithoutLeadingSpaces(Tail(s)) ELSE s

\* A token that is empty or, after optional leading spaces, solely `=`.
IsBlankToken(token) ==
    WithoutLeadingSpaces(token.data) \in { << >>, << Equal >> }

IsArgToken(token) == ~ IsBlankToken(token)

\* C14: a token that is empty or, after optional leading spaces, solely
\* `=` adds no arg: the element's args are those of its other tokens, so
\* consecutive delimiters never leave an arg with an empty value.
C14_BlankTokensAddNoArg ==
    (ArgsScanned /\ element_parser[1].fate = "returned"
                 /\ element_parser[1].element # None) =>
        LET el == element_parser[1].element[1]
        IN  el = evaluate_keyvals([el EXCEPT !.element.args = << >>],
                                  SelectSeq(walk_info, IsArgToken))

-----------------------------------------------------------------------------
(* Claims about names and prefixes, checked under SpecLex.                 *)

\* Whether the last call of read returned, and the element it produced.
ReadReturned == element_parser # None /\ element_parser[1].fate = "returned"

ProducedElement == ReadReturned /\ element_parser[1].element # None

\* The error code a classification reports for a missing name.
MissingNameError(kind) ==
    CASE kind = "Attribute" -> "EolMissingAttribute"
      [] kind = "Global" -> "EolMissingGlobal"
      [] OTHER -> "EolMissingElement"

\* C15: a line whose name is empty after trim/unquote yields the error of
\* its classification, so every Standard, Attribute or Global element that
\* read produces has a non-empty name.
C15_NoEmptyName ==
    ProducedElement =>
        LET el == element_parser[1].element[1]
        IN  el.kind \in { "Standard", "Attribute", "Global" } =>
                /\ el.element.text # << >>
                /\ element_parser[1].error = None

\* The bytes of the last line read other than spaces: its first two are
\* the line's first and second prefix byte when they are prefixes.
LastLineBytes ==
    SelectSeq(str_trim(read_calls[Len(read_calls)].line), LAMBDA c : c # Space)

FirstPrefixIs(c) ==
    read_calls # << >> /\ Len(LastLineBytes) >= 2 /\ LastLineBytes[1] = c

SecondPrefixIn(S) == LastLineBytes[2] \in S

\* The last call of read returned the error code and no element.
ReadFailedWith(code) ==
    /\ ReadReturned
    /\ element_parser[1].error = Some(code)
    /\ element_parser[1].element = None

\* C16: after a first prefix `@`, a second prefix `@` or `!` gives
\* BadTokenPosAttribute; after a first prefix `!`, any second prefix byte
\* gives BadTokenPosBang; no element is produced.
C16_PrefixErrorNamedAfterFirst ==
    /\ (FirstPrefixIs(At) /\ SecondPrefixIn({ At, Bang })) =>
            ReadFailedWith("BadTokenPosAttribute")
    /\ (FirstPrefixIs(Bang) /\ SecondPrefixIn({ At, Bang, Hash })) =>
            ReadFailedWith("BadTokenPosBang")

\* C16 as amended: after a first prefix `@` or `!`, a second prefix `@`
\* gives BadTokenPosAttribute and a second prefix `!` gives
\* BadTokenPosBang; no element is produced.
C16_PrefixErrorNamedAfterSecond ==
    (FirstPrefixIs(At) \/ FirstPrefixIs(Bang)) =>
        /\ SecondPrefixIn({ At }) => ReadFailedWith("BadTokenPosAttribute")
        /\ SecondPrefixIn({ Bang }) => ReadFailedWith("BadTokenPosBang")

\* C16 witness: `!` then `@` was read as BadTokenPosAttribute.
C16_Witness ==
    /\ FirstPrefixIs(Bang)
    /\ SecondPrefixIn({ At })
    /\ ReadFailedWith("BadTokenPosAttribute")

-----------------------------------------------------------------------------
(* Claims about literals, checked under SpecScan.                          *)

\* Whether the argument range of the last line read holds a literal span
\* that is not closed by the end of the line.
HasOpenSpan == ArgsScanned /\ ArgSpans # ArgClosedSpans

\* C17: a line with a literal span left open at its end has the result
\* Err with code UnterminatedQuote.
C17_OpenSpanIsReported ==
    HasOpenSpan =>
        \E i \in 1 .. Len(results) :
            /\ results[i].tag = "Err"
            /\ results[i].line_number = read_calls[Len(read_calls)].line_number
            /\ results[i].code = "UnterminatedQuote"

-----------------------------------------------------------------------------
(* Claims about Literal::new, checked under SpecLiteral.                   *)

\* The bytes the grammar reserves: @ ! # = , " backslash and space.
GrammarReserved == { At, Bang, Hash, Equal, Comma, Quote, Backslash, Space }

\* C18: Literal::new(begin, end) returns Err with a message whenever
\* begin or end is a byte the grammar reserves, and Ok(Literal{begin, end})
\* otherwise.
C18_LiteralNewRejectsReserved ==
    (pc = "called" /\ call.op = "Literal_new") =>
        IF call.begin \in GrammarReserved \/ call.end \in GrammarReserved
        THEN ret[1].tag = "Err" /\ ret[1].message # ""
        ELSE ret[1] = [ tag |-> "Ok", literal |-> Literal(call.begin, call.end) ]

-----------------------------------------------------------------------------
(* Claims about the entry points, checked under Spec.                      *)

\* The list a caller's literals argument stands for.
CallerList == IF call.literals = None THEN << >> ELSE call.literals[1]

-----------------------------------------------------------------------------
(* Claims about determinism, checked under SpecShared.                     *)

\* C20: scanning is deterministic: every parse of the same line with the
\* same literal list, whatever the order its literal table is iterated in,
\* yields the delimiter, the token split and the element of the parse made,
\* also when two literals share their begin byte.
C20_ScanDeterministic ==
    read_calls # << >> =>
        LET c == read_calls[Len(read_calls)]
        IN  \A o \in KeyOrders(c.literals) :
                LET again == read(c.line_number, c.line, o, overflow_checks)
                IN  /\ again.delimiter = element_parser[1].delimiter
                    /\ again.tokens = walk_info
                    /\ again.element = element_parser[1].element

-----------------------------------------------------------------------------
(* Claims about results and line assembly, checked under Spec.             *)

\* The entries of results recorded for physical line n.
ResultsOf(n) == { i \in 1 .. Len(results) : results[i].line_number = n }

\* C21: read returns with exactly one of element and error set, is_ok()
\* holding iff the element is present, and the driver records at most one
\* result for a line, never both an Err and an Ok.
C21_ElementXorError ==
    /\ ReadReturned =>
          /\ (element_parser[1].element # None) # (element_parser[1].error # None)
          /\ is_ok(element_parser[1]) <=> element_parser[1].element # None
    /\ \A n \in 1 .. Len(lines) : Cardinality(ResultsOf(n)) <= 1

\* C21 witness: an element was recorded for one line and then an error for
\* the next, read having returned the error without an element.
C21_Witness ==
    /\ ReadReturned
    /\ element_parser[1].element = None
    /\ element_parser[1].error # None
    /\ Len(results) = 2
    /\ results[1].tag = "Ok"
    /\ results[2].tag = "Err"

\* Whether physical line n ends with a backslash.
Continues(n) == lines[n] # << >> /\ lines[n][Len(lines[n])] = Backslash

\* The first line of the run of continued lines the input ends with: the
\* lines from it on are still buffered when the input ends.
PendingFrom ==
    Min({ n \in 1 .. Len(lines) : \A m \in n .. Len(lines) : Continues(m) })

\* C22: when the input ends right after a line that ends with a backslash,
\* the buffered lines are never parsed and have no Ok and no Err entry.
C22_PendingBufferDiscarded ==
    (pc = "returned" /\ lines # << >> /\ Continues(Len(lines))) =>
        /\ \A k \in 1 .. Len(read_calls) : read_calls[k].line_number < PendingFrom
        /\ \A i \in 1 .. Len(results) : results[i].line_number < PendingFrom

\* C22 witness: the input ended with two buffered lines after a parsed one.
C22_Witness ==
    /\ pc = "returned"
    /\ Len(lines) = 3
    /\ Continues(3)
    /\ PendingFrom = 2
    /\ building_line # None
    /\ Len(results) = 1

-----------------------------------------------------------------------------
(* Claims about comments and quoted names, checked under SpecLex.          *)

\* The trimmed line of the last call of read.
LastTrimmed == str_trim(read_calls[Len(read_calls)].line)

\* The Comment whose text is the trimmed line after its first byte.
CommentOfLine == [ kind |-> "Comment",
                   element |-> [ text |-> Tail(LastTrimmed), args |-> << >> ] ]

\* C23: a line whose first non-space byte is `#` yields Ok(Comment) with
\* the rest of the trimmed line after that `#` as its text and no args,
\* whatever bytes the text holds.
C23_CommentIsVerbatim ==
    (read_calls # << >> /\ LastLineBytes # << >> /\ LastLineBytes[1] = Hash) =>
        /\ ReadReturned
        /\ element_parser[1].error = None
        /\ element_parser[1].element = Some(CommentOfLine)
        /\ results = << ParseResult_ok(1, CommentOfLine) >>

\* C23 witness: a comment whose text holds a space, a quote and a prefix
\* byte was recorded.
C23_Witness ==
    /\ read_calls # << >>
    /\ LastTrimmed = << Hash, Space, Quote, At >>
    /\ results = << ParseResult_ok(1, CommentOfLine) >>

-----------------------------------------------------------------------------
(* The string utilities. *)

\* The methods called so far on the String are exactly ops, and none panicked.
Called(ops) == call.op = "string" /\ call.ops = ops /\ pc = "call"

\* A method of ops' chain panicked.
PanickedIn(ops) ==
    /\ call.op = "string"
    /\ pc = "panicked"
    /\ \E n \in 1 .. Len(ops) : call.ops = SubSeq(ops, 1, n)

\* s is at least two bytes long and its first and last bytes are quotes.
WrappedInQuotes(s) == Len(s) >= 2 /\ s[1] = Quote /\ s[Len(s)] = Quote

\* s without its leading and trailing space bytes.
WithoutOuterSpaces(s) ==
    LET I == { i \in 1 .. Len(s) : s[i] # Space }
    IN  IF I = {} THEN << >> ELSE SubSeq(s, Min(I), Max(I))

\* C24: quote then unquote gives back the string quote was called on, for
\* every string; and after quote a string that did not start with a quote is
\* quoted.
C24_QuoteRoundTrip ==
    /\ ~ PanickedIn(<< "quote", "unquote" >>)
    /\ Called(<< "quote", "unquote" >>) => call.vals[3] = call.vals[1]
    /\ (Called(<< "quote" >>) /\ (call.vals[1] = << >> \/ call.vals[1][1] # Quote))
          => WrappedInQuotes(call.vals[2])

\* C25: calling trim, quote or unquote a second time changes nothing, for every
\* string.
C25_Idempotent ==
    \A f \in { "trim", "quote", "unquote" } :
        /\ ~ PanickedIn(<< f, f >>)
        /\ Called(<< f, f >>) => call.vals[3] = call.vals[2]

\* C26: is_quoted returns, on every string, whether the string is at least two
\* bytes long and begins and ends with a quote; it never fails.
C26_IsQuoted ==
    /\ ~ PanickedIn(<< "is_quoted" >>)
    /\ Called(<< "is_quoted" >>) => ret = Some(WrappedInQuotes(call.vals[1]))

\* C27: trim leaves the string without its leading and trailing spaces and
\* otherwise as it was; a string of spaces only becomes empty.
C27_TrimRemovesOuterSpaces ==
    Called(<< "trim" >>) => call.vals[2] = WithoutOuterSpaces(call.vals[1])

-----------------------------------------------------------------------------
(* Display of KeyVals. *)

\* s wrapped in quotes when it contains a space, else s.
QuotedIfSpaced(s) ==
    IF \E i \in 1 .. Len(s) : s[i] = Space THEN << Quote >> \o s \o << Quote >> ELSE s

\* The display of an arg with this key and value.
DisplayOf(key, val) ==
    IF key = None THEN QuotedIfSpaced(val)
    ELSE QuotedIfSpaced(key[1]) \o << Equal >> \o QuotedIfSpaced(val)

\* C28: after any sequence of upserts, to_string of an arg is its value when
\* it has no key and key=value when it has one, the value and the key each in
\* quotes exactly when it contains a space.
C28_DisplayQuotesSpaced ==
    (call.op = "display" /\ pc = "called") =>
        \A i \in 1 .. Len(call.element.args) :
            ret[1][i] = DisplayOf(call.element.args[i].key, call.element.args[i].val)

-----------------------------------------------------------------------------
(* Keys of parsed args, checked under SpecScan. *)

\* C29: in the element read produces, every arg that has a key has a key of
\* at least one byte.
C29_KeysAreNonEmpty ==
    (ArgsScanned /\ ProducedElement) =>
        \A kv \in { element_parser[1].element[1].element.args[i] :
                      i \in 1 .. Len(element_parser[1].element[1].element.args) } :
            kv.key # None => kv.key[1] # << >>

-----------------------------------------------------------------------------
(* Quoted element names, checked under SpecLex. *)

\* The position of the quote that closes the quote the trimmed line L begins
\* with, or 0.
ClosingQuote(L) ==
    LET J == { j \in 2 .. Len(L) : L[j] = Quote }
    IN  IF Len(L) >= 1 /\ L[1] = Quote /\ J # {} THEN Min(J) ELSE 0

\* The last line read begins with a name of at least one byte in quotes, and
\* the line ends, or a space follows, after the closing quote.
StartsWithQuotedName ==
    /\ read_calls # << >>
    /\ LET L == LastTrimmed
           j == ClosingQuote(L)
       IN  j >= 3 /\ (j = Len(L) \/ L[j + 1] = Space)

\* C30: a line that begins with a name in quotes yields the Standard element
\* whose name is the text between the quotes, whatever bytes it holds; when
\* the line ends at the closing quote the element has no args.
C30_QuotedNameIsVerbatim ==
    StartsWithQuotedName =>
        LET L == LastTrimmed
            j == ClosingQuote(L)
        IN  /\ ProducedElement
            /\ element_parser[1].element[1].kind = "Standard"
            /\ element_parser[1].element[1].element.text = SubSeq(L, 2, j - 1)
            /\ j = Len(L) => element_parser[1].element[1].element.args = << >>

-----------------------------------------------------------------------------
(* Element::has_keys, checked under SpecHasKeys. *)

\* The keys of the named args of the list.
NamedKeys(args) == { args[i].key[1] : i \in { n \in 1 .. Len(args) : args[n].key # None } }

\* C31: has_keys returns true exactly when every key of the list is the key
\* of a named arg of the element; args without a key match no key.
C31_HasKeysNeedsAll ==
    (call.op = "has_keys" /\ pc = "called") =>
        ret = Some(\A n \in 1 .. Len(call.keys) : call.keys[n] \in NamedKeys(call.args))

\* C31 witness: has_keys returned false for two keys of which the element has
\* one, on an element that also holds an arg without a key.
C31_Witness ==
    /\ call.op = "has_keys"
    /\ pc = "called"
    /\ ret = Some(FALSE)
    /\ Len(call.keys) = 2
    /\ call.keys[1] \in NamedKeys(call.args)
    /\ call.keys[2] \notin NamedKeys(call.args)
    /\ \E i \in 1 .. Len(call.args) : call.args[i].key = None

-----------------------------------------------------------------------------
(* Lines of one document, checked under SpecModes. *)

\* The line read recorded for the line number of a result.
LineOfResult(r) == read_calls[CallAt(r.line_number)].line

\* C32: the delimiter of a call of read is the one inferred from its line
\* alone, whatever the lines before it selected, and the element of a line
\* depends only on the line and the literal list: two equal lines of one
\* document give equal elements.
C32_ModePerLine ==
    /\ (element_parser # None /\ read_calls # << >>) =>
          LET c == read_calls[Len(read_calls)]
          IN  \E o \in KeyOrders(literals) :
                 element_parser[1].delimiter
                    = read(c.line_number, c.line, o, overflow_checks).delimiter
    /\ \A i, j \in 1 .. Len(results) :
          (/\ results[i].tag = "Ok"
           /\ results[j].tag = "Ok"
           /\ LineOfResult(results[i]) = LineOfResult(results[j]))
             => results[i].data = results[j].data

-----------------------------------------------------------------------------
(* The step of process on one physical line, checked under Spec. *)

\* The physical line a step of process is about to take.
NextPhysical == lines[total_lines + 1]

EndsWithBackslash(line) == Len(line) > 0 /\ line[Len(line)] = Backslash

\* The pending buffer was created, or grew at its end.
PendingCreatedOrExtended ==
    /\ building_line' # None
    /\ building_line # None =>
          /\ Len(building_line'[1]) >= Len(building_line[1])
          /\ SubSeq(building_line'[1], 1, Len(building_line[1])) = building_line[1]

\* C33: the step of process on a line that ends with a backslash adds one to
\* the line counter and creates or extends the pending buffer, and changes
\* neither the results nor the attribute queue nor calls read; the step on
\* any other line leaves no pending buffer.
C33_ContinuationOnlyBuffers ==
    [][ (pc = "process" /\ total_lines' = total_lines + 1) =>
           IF EndsWithBackslash(NextPhysical)
           THEN /\ PendingCreatedOrExtended
                /\ UNCHANGED << results, attrs, read_calls, element_parser, pc >>
           ELSE building_line' = None ]_vars

\* C33 witness: with a result recorded and an attribute queued, two lines
\* ending with a backslash were processed one after the other.
C33_Witness ==
    /\ pc = "process"
    /\ total_lines = 3
    /\ EndsWithBackslash(lines[2])
    /\ EndsWithBackslash(lines[3])
    /\ building_line # None
    /\ Len(read_calls) = 1
    /\ attrs # << >>

-----------------------------------------------------------------------------
(* Lines with multi-byte characters, checked under SpecUtf8. *)

\* The bytes of the line before its first space.
BytesBeforeFirstSpace(L) ==
    LET I == { i \in 1 .. Len(L) : L[i] = Space }
    IN  IF I = {} THEN L ELSE SubSeq(L, 1, Min(I) - 1)

\* The byte that splits the tokens under the delimiter read selected.
DelimiterByte == IF element_parser[1].delimiter = "Comma" THEN Comma ELSE Space

\* C34: on a line with multi-byte characters the name is the bytes of the
\* lexer's byte range, those before the first space, and no token holds the
\* delimiter byte that ended it.
C34_SlicesAreByteRanges ==
    (read_calls # << >> /\ ProducedElement) =>
        /\ element_parser[1].element[1].element.text = BytesBeforeFirstSpace(LastTrimmed)
        /\ \A n \in 1 .. Len(walk_info) :
              \A i \in 1 .. Len(walk_info[n].data) :
                  walk_info[n].data[i] # DelimiterByte

-----------------------------------------------------------------------------
(* The name span of read, checked under SpecLex. *)

\* The bytes of L from position pos (0-based) up to the next space or the end.
SpanFrom(L, pos) ==
    LET I == { i \in pos + 1 .. Len(L) : L[i] = Space }
    IN  SubSeq(L, pos + 1, IF I = {} THEN Len(L) ELSE Min(I) - 1)

\* C35: whenever read goes on to cut the name, the end index of the name
\* span is not before its start index, and a name that is not quoted is the
\* span that starts at the first byte after the prefix and the spaces.
C35_NameEndNotBeforeStart ==
    (read_calls # << >> /\ LastTrimmed # << >>) =>
        LET L == LastTrimmed
            pre == prefix_loop(L, 0, "Standard")
        IN  pre.exit = "name" =>
              /\ name_end(L) >= pre.pos
              /\ (ProducedElement /\ pre.pos < Len(L) /\ L[pre.pos + 1] # Quote) =>
                    element_parser[1].element[1].element.text = SpanFrom(L, pre.pos)

-----------------------------------------------------------------------------
(* Repeated keys of one line, checked under SpecKeys. *)

\* The KeyVals of the tokens of the last line that evaluate_keyvals does not
\* pass over, in the order of the line.
LineKeyVals ==
    LET kept == SelectSeq(walk_info, LAMBDA t : ~ token_skipped(t))
    IN  [i \in 1 .. Len(kept) |-> token_keyval(kept[i])]

\* The occurrences that are the first of their key, or have no key.
FirstOccurrences(kvs) ==
    { i \in 1 .. Len(kvs) :
        kvs[i].key = None \/ \A j \in 1 .. i - 1 : kvs[j].key # kvs[i].key }

\* The value of the last occurrence of the key of occurrence i.
LastValue(kvs, i) ==
    IF kvs[i].key = None THEN kvs[i].val
    ELSE kvs[Max({ j \in 1 .. Len(kvs) : kvs[j].key = kvs[i].key })].val

\* C36: in the element of a line no two args have the same key; the args are
\* the first occurrences of the line's keys (and its args without a key) in
\* the order of the line, each key with the value of its last occurrence.
C36_KeysAreUnique ==
    (read_calls # << >> /\ ProducedElement) =>
        LET args == element_parser[1].element[1].element.args
            kvs == LineKeyVals
            F == FirstOccurrences(kvs)
        IN  /\ \A i, j \in 1 .. Len(args) :
                  (i # j /\ args[i].key # None) => args[i].key # args[j].key
            /\ Len(args) = Cardinality(F)
            /\ \A i \in F :
                  LET n == Cardinality({ j \in F : j <= i })
                  IN  args[n].key = kvs[i].key /\ args[n].val = LastValue(kvs, i)

\* C36 witness: a line gave the same key twice with different values, and
\* the element holds it once.
C36_Witness ==
    /\ read_calls # << >>
    /\ ProducedElement
    /\ Len(element_parser[1].element[1].element.args) = 1
    /\ Len(LineKeyVals) = 2
    /\ LineKeyVals[1].key # None
    /\ LineKeyVals[1].key = LineKeyVals[2].key
    /\ LineKeyVals[1].val # LineKeyVals[2].val

-----------------------------------------------------------------------------
(* The assertions of collect_tokens, checked under SpecScan. *)

\* C37: in neither pass of collect_tokens does the block for a literal's
\* begin or end byte find no active literal, or an active literal that is
\* not a key of the literal table.
C37_AssertionsHold ==
    ArgsScanned =>
        LET walk == ArgWalk
        IN  ~ walk.pass1.failed /\ ~ walk.pass2.failed

\* C37 witness: both passes went through a literal span of the last line,
\* its begin and its end byte, and read returned.
C37_Witness ==
    /\ ArgsScanned
    /\ ReadReturned
    /\ LET walk == ArgWalk
       IN  /\ Cardinality(walk.pass1.inside) >= 2
           /\ Cardinality(walk.pass2.inside) >= 2
           /\ walk.pass1.active = None
           /\ walk.pass2.active = None

-----------------------------------------------------------------------------
(* The tokens of pass 2 as a partition of the argument range. *)

\* The tokens from token i on, joined by the delimiter byte d.
RECURSIVE Joined(_, _, _)
Joined(toks, i, d) ==
    IF i > Len(toks) THEN << >>
    ELSE IF i = Len(toks) THEN toks[i].data
    ELSE toks[i].data \o << d >> \o Joined(toks, i + 1, d)

\* The bytes of the argument range of the last line.
ArgBytes == SubSeq(ArgSlice, ArgStart + 1, Len(ArgSlice))

\* C38: the tokens of a line, in order and joined by the delimiter bytes
\* that split them, are the bytes of the argument range up to the end of the
\* line (less a delimiter that ends the line); a token holds a delimiter
\* byte only where pass 2 was inside a literal span; and a pivot is the
\* index of an `=` of its token.
C38_TokensPartitionArgs ==
    (ArgsScanned /\ ReadReturned) =>
        LET d == DelimiterByte
            whole == Joined(walk_info, 1, d)
            inside == ArgWalk.pass2.inside
        IN  /\ ArgBytes \in { whole, whole \o << d >> }
            /\ \A i \in 1 .. Len(walk_info) :
                  /\ \A k \in 1 .. Len(walk_info[i].data) :
                        walk_info[i].data[k] = d => (TokenOffset(i) + k - 1) \in inside
                  /\ walk_info[i].pivot # None =>
                        /\ walk_info[i].pivot[1] < Len(walk_info[i].data)
                        /\ walk_info[i].data[walk_info[i].pivot[1] + 1] = Equal

=============================================================================
